---- MODULE Spec2Model ----
(***************************************************************************)
(* TsJestTransformer (src/src/ts-jest-transformer.ts): the process-wide    *)
(* ConfigSet cache behind configsFor, the cache key of getCacheKey and the *)
(* per-file branch selection of process.                                   *)
(*                                                                         *)
(* Strings are sequences of one-string tokens (a token is a character or   *)
(* an indivisible piece of text), so concatenation, suffix tests and JSON  *)
(* escaping are computed, not assumed.  A raw jest configuration object is *)
(* a reference (an index into heap); its content is a function from keys   *)
(* to values, so that two distinct objects can carry equal content.        *)
(***************************************************************************)
EXTENDS Integers, Sequences, FiniteSets, TLC

VARIABLES
  heap,              \* the raw jest config objects alive in the process: ref -> content
  env,               \* the host's world: hooks file, project files, transform options
  cachedConfigSets,  \* TsJestTransformer._cachedConfigSets (static, shared)
  transformCfgStr,   \* this._transformCfgStr of each transformer instance
  configSets,        \* every ConfigSet constructed so far; a ConfigSet's identity is its index
  firstConfigSet,    \* history: ref -> the ConfigSet its first successful resolution returned (0: none)
  lastConfigSet,     \* history: ref -> the ConfigSet its latest successful resolution returned (0: none)
  last               \* the latest call: its arguments and everything it did and returned

vars == <<heap, env, cachedConfigSets, transformCfgStr, configSets,
          firstConfigSet, lastConfigSet, last>>

-----------------------------------------------------------------------------
(* Bounds *)

NumInstances == 2

Instances == 1..NumInstances

-----------------------------------------------------------------------------
(* Text *)

Undefined == "undefined"
NUL == "\\x00"

RECURSIVE Flatten(_)
Flatten(ss) == IF ss = <<>> THEN <<>> ELSE Head(ss) \o Flatten(Tail(ss))

EndsWith(s, suffix) ==
  /\ Len(s) >= Len(suffix)
  /\ SubSeq(s, Len(s) - Len(suffix) + 1, Len(s)) = suffix

\* JSON.stringify of one character of a string
EscapeChar(c) ==
  IF c = "\"" THEN <<"\\", "\"">>
  ELSE IF c = "\\" THEN <<"\\", "\\">>
  ELSE IF c = NUL THEN <<"\\", "u", "0", "0", "0", "0">>
  ELSE <<c>>

\* stringify(source) of a string: its JSON string literal
stringifyStr(s) ==
  <<"\"">> \o Flatten([i \in 1..Len(s) |-> EscapeChar(s[i])]) \o <<"\"">>

-----------------------------------------------------------------------------
(* Raw jest configurations and their stable serialization *)

KeyOrder == <<"babel", "cacheDirectory", "digest", "globals", "name", "rootDir", "tsconfig">>
StringKeys == {"babel", "cacheDirectory", "digest", "name"}

DefaultTsJest ==
  [tsconfig |-> "unset", babelConfig |-> "unset", stringifyContentPathRegex |-> "unset"]

\* globals['ts-jest'] of a raw configuration (the plugin defaults when absent)
TsJestOf(cfg) ==
  IF "ts-jest" \in DOMAIN cfg.globals THEN cfg.globals["ts-jest"] ELSE DefaultTsJest

StringifyTsJest(t) ==
  <<"{", "babelConfig", ":", t.babelConfig, ",",
    "stringifyContentPathRegex", ":", t.stringifyContentPathRegex, ",",
    "tsconfig", ":", t.tsconfig, "}">>

StringifyGlobals(g) ==
  <<"{">> \o (IF "dev" \in DOMAIN g THEN <<"dev", ":", g["dev"], ",">> ELSE <<>>)
          \o (IF "ts-jest" \in DOMAIN g
                THEN <<"ts-jest", ":">> \o StringifyTsJest(g["ts-jest"])
                ELSE <<>>)
          \o <<"}">>

StringifyTsconfig(t) ==
  <<"{", "options", ":", "{">>
    \o (IF t.options.allowJs = Undefined THEN <<>> ELSE <<"allowJs", ":", t.options.allowJs>>)
    \o <<"}", ",", "raw", ":", t.raw, "}">>

\* one key of an object: keys holding undefined are left out, as JSON does
StringifyField(obj, k) ==
  IF k \notin DOMAIN obj THEN <<>>
  ELSE IF k \in StringKeys
    THEN (IF obj[k] = Undefined THEN <<>> ELSE <<k, ":", "\"", obj[k], "\"", ",">>)
  ELSE IF k = "globals" THEN <<k, ":">> \o StringifyGlobals(obj[k]) \o <<",">>
  ELSE IF k = "rootDir" THEN <<k, ":">> \o stringifyStr(obj[k]) \o <<",">>
  ELSE <<k, ":">> \o StringifyTsconfig(obj[k]) \o <<",">>

\* stringify(value) of an object: keys in sorted order, whatever order they were set in
stringify(obj) ==
  <<"{">> \o Flatten([i \in 1..Len(KeyOrder) |-> StringifyField(obj, KeyOrder[i])]) \o <<"}">>

-----------------------------------------------------------------------------
(* ConfigSet, as the transformer sees it *)

RECURSIVE ResolvePath(_, _)
ResolvePath(toks, acc) ==
  IF toks = <<>> THEN acc
  ELSE IF Head(toks) \in {"/", "."} THEN ResolvePath(Tail(toks), acc)
  ELSE IF Head(toks) = ".."
    THEN ResolvePath(Tail(toks), IF acc = <<>> THEN acc ELSE SubSeq(acc, 1, Len(acc) - 1))
  ELSE ResolvePath(Tail(toks), Append(acc, Head(toks)))

\* an absolute path with its '.', '..' and doubled separators resolved
NormalizePath(toks) ==
  LET segs == ResolvePath(toks, <<>>)
  IN IF segs = <<>> THEN <<"/">> ELSE Flatten([i \in 1..Len(segs) |-> <<"/", segs[i]>>])

\* new ConfigSet(jestConfig) fails on a compiler configuration it cannot parse
ConfigSetThrows(cfg) == TsJestOf(cfg).tsconfig = "malformed"

\* new ConfigSet(jestConfig): what the set derives from the raw configuration
NewConfigSet(ref, cfg, hooksFile) ==
  [jestConfig |-> ref, tsJest |-> TsJestOf(cfg), rootDir |-> NormalizePath(cfg.rootDir),
   hooksFile |-> hooksFile]

tsJestDigest(cs) == "ts-jest-digest"

babelConfig(cs) == IF cs.tsJest.babelConfig = "true" THEN "babelrc" ELSE Undefined

parsedTsConfig(cs) ==
  [options |-> [allowJs |-> IF cs.tsJest.tsconfig = "allowJs:true" THEN "true"
                            ELSE IF cs.tsJest.tsconfig = "allowJs:false" THEN "false"
                            ELSE Undefined],
   raw |-> cs.tsJest.tsconfig]

\* configs.babelJestTransformer is defined exactly when a babel config is
hasBabelJestTransformer(cs) == babelConfig(cs) # Undefined

StringifyPattern(regex) ==
  IF regex = "\\.html$" THEN <<".", "h", "t", "m", "l">>
  ELSE IF regex = "\\.ts$" THEN <<".", "t", "s">>
  ELSE <<>>

shouldStringifyContent(cs, filePath) ==
  /\ cs.tsJest.stringifyContentPathRegex # "unset"
  /\ EndsWith(filePath, StringifyPattern(cs.tsJest.stringifyContentPathRegex))

-----------------------------------------------------------------------------
(* configsFor *)

\* _cachedConfigSets.find((cs) => cs.jestConfig.value === jestConfig): index, 0 when none
FindByValue(cache, ref) ==
  LET hits == {i \in 1..Len(cache) : cache[i].value = ref}
  IN IF hits = {} THEN 0 ELSE CHOOSE i \in hits : \A j \in hits : i <= j

\* the lookup key taken of the configuration with its run-specific fields cleared
SerializedJestCfg_Stripped(cfg) ==
  stringify([k \in DOMAIN cfg |-> IF k \in {"name", "cacheDirectory"} THEN Undefined ELSE cfg[k]])

\* const serializedJestCfg = stringify(jestConfig)
SerializedJestCfg(cfg) == stringify(cfg)

\* the lookup by serialized content left out: identity is all that is compared
FindBySerialized_Never(cache, ser) == 0

\* _cachedConfigSets.find((cs) => cs.jestConfig.serialized === serializedJestCfg)
FindBySerialized(cache, ser) ==
  LET hits == {i \in 1..Len(cache) : cache[i].serialized = ser}
  IN IF hits = {} THEN 0 ELSE CHOOSE i \in hits : \A j \in hits : i <= j

\* the matched record taken out and put back last
UpdateValue_MoveToEnd(cache, i, ref, cfg) ==
  Append(SubSeq(cache, 1, i - 1) \o SubSeq(cache, i + 1, Len(cache)),
         [cache[i] EXCEPT !.value = ref, !.serialized = stringify(cfg)])

\* serializedCcs.jestConfig.value = jestConfig (the setter serializes the new value)
UpdateValue(cache, i, ref, cfg) ==
  [cache EXCEPT ![i] = [@ EXCEPT !.value = ref, !.serialized = stringify(cfg)]]

\* The objects configsFor holds while it builds the signature: top-level objects ("O0",
\* the caller's jestConfig, and "O1") whose globals field points to a globals object
\* ("G0", the caller's, and "G1"); jest names the top-level object the writes go to.
ObjectsOf(cfg) ==
  [top |-> ("O0" :> [cfg EXCEPT !.globals = "G0"]), glob |-> ("G0" :> cfg.globals),
   jest |-> "O0"]

\* const jest = { ...jestConfig }: a new top-level object, its globals still the caller's
CopyJest(s) == [s EXCEPT !.top = ("O1" :> s.top["O0"]) @@ s.top, !.jest = "O1"]

\* const globals = jest.globals: the caller's globals object, not a copy of it
CopyGlobals_Shared(s) == s

\* const globals = (jest.globals = { ...jest.globals })
CopyGlobals(s) ==
  [s EXCEPT !.glob = ("G1" :> s.glob[s.top[s.jest].globals]) @@ s.glob,
            !.top[s.jest].globals = "G1"]

\* jest.name = undefined; jest.cacheDirectory = undefined
ClearRunFields(s) ==
  [s EXCEPT !.top[s.jest].name = Undefined, !.top[s.jest].cacheDirectory = Undefined]

\* delete globals['ts-jest']
DeleteTsJest(s) ==
  LET g == s.top[s.jest].globals
  IN [s EXCEPT !.glob[g] = [k \in DOMAIN s.glob[g] \ {"ts-jest"} |-> s.glob[g][k]]]

StripForSignature(cfg) == DeleteTsJest(ClearRunFields(CopyGlobals(CopyJest(ObjectsOf(cfg)))))

\* a top-level object read with the globals object it points to
Deref(s, o) == [s.top[o] EXCEPT !.globals = s.glob[s.top[o].globals]]

\* the copy serialized with its name and cache directory left in
JestForSignature_KeepsRunFields(cfg) ==
  [k \in DOMAIN cfg |->
     IF k = "globals" THEN [g \in DOMAIN cfg.globals \ {"ts-jest"} |-> cfg.globals[g]]
     ELSE cfg[k]]

\* jest, as spread into the signature
JestForSignature(cfg) ==
  LET s == StripForSignature(cfg) IN Deref(s, s.jest)

\* the caller's jestConfig once the signature is built
CallerAfterStrip(cfg) == Deref(StripForSignature(cfg), "O0")

\* { digest, babel, ...jest, tsconfig: { options, raw } }: a later key replaces an earlier one
SignatureObject(cs, jest) ==
  [k \in {"digest", "babel", "tsconfig"} \cup DOMAIN jest |->
     IF k = "tsconfig" THEN [options |-> parsedTsConfig(cs).options, raw |-> parsedTsConfig(cs).raw]
     ELSE IF k \in DOMAIN jest THEN jest[k]
     ELSE IF k = "digest" THEN tsJestDigest(cs)
     ELSE babelConfig(cs)]

\* new JsonableValue({...}).serialized
TransformCfgStrOf(cs, cfg) == stringify(SignatureObject(cs, JestForSignature(cfg)))

\* the new record never put in the index
PushEntry_Dropped(cache, ref, cfg, csId, cfgStr) == cache

\* _cachedConfigSets.push({ jestConfig: new JsonableValue(jestConfig), configSet, transformerCfgStr })
PushEntry(cache, ref, cfg, csId, cfgStr) ==
  Append(cache, [value |-> ref, serialized |-> stringify(cfg),
                 configSet |-> csId, transformerCfgStr |-> cfgStr])

\* the instance keeps the signature of its previous call on an identity hit
CfgStrOnValueHit_Stale(entry, old) == old

\* this._transformCfgStr = ccs.transformerCfgStr (identity hit)
CfgStrOnValueHit(entry, old) == entry.transformerCfgStr

\* the instance keeps the signature of its previous call on a serialized hit
CfgStrOnSerializedHit_Stale(entry, old) == old

\* this._transformCfgStr = serializedCcs.transformerCfgStr (serialized hit)
CfgStrOnSerializedHit(entry, old) == entry.transformerCfgStr

\* this.logger.info('no matching config-set found, creating a new one')
NoMatchInfo ==
  [level |-> "info", fileName |-> <<>>, path |-> <<>>,
   message |-> "no matching config-set found, creating a new one"]

\* the record put in the index before its ConfigSet is built
CacheOnFailedBuild_EntryFirst(cache, ref, cfg) ==
  Append(cache, [value |-> ref, serialized |-> stringify(cfg),
                 configSet |-> 0, transformerCfgStr |-> <<Undefined>>])

\* new ConfigSet(jestConfig) throws: the push further down is never reached
CacheOnFailedBuild(cache, ref, cfg) == cache

\* configsFor(jestConfig) on the instance whose _transformCfgStr is cfgStr:
\* the cache, the ConfigSets and the instance's signature afterwards, the ConfigSet
\* returned, the lookup step that answered (1, 2, 3) and whether the call threw.
configsFor(cache, sets, hp, hooksFile, cfgStr, ref) ==
  LET cfg == hp[ref]
      ccs == FindByValue(cache, ref)
      serializedCcs == FindBySerialized(cache, SerializedJestCfg(cfg))
  IN IF ccs # 0
       THEN [threw |-> FALSE, step |-> 1, cache |-> cache, sets |-> sets, heap |-> hp,
             logs |-> <<>>,
             cfgStr |-> CfgStrOnValueHit(cache[ccs], cfgStr),
             configSet |-> cache[ccs].configSet]
     ELSE IF serializedCcs # 0
       THEN [threw |-> FALSE, step |-> 2,
             cache |-> UpdateValue(cache, serializedCcs, ref, cfg), sets |-> sets, heap |-> hp,
             logs |-> <<>>,
             cfgStr |-> CfgStrOnSerializedHit(cache[serializedCcs], cfgStr),
             configSet |-> cache[serializedCcs].configSet]
     ELSE IF ConfigSetThrows(cfg)
       THEN [threw |-> TRUE, step |-> 3, cache |-> CacheOnFailedBuild(cache, ref, cfg),
             sets |-> sets, heap |-> hp,
             logs |-> <<NoMatchInfo>>,
             cfgStr |-> cfgStr, configSet |-> 0]
     ELSE LET cs == NewConfigSet(ref, cfg, hooksFile)
              csId == Len(sets) + 1
              str == TransformCfgStrOf(cs, cfg)
          IN [threw |-> FALSE, step |-> 3,
              cache |-> PushEntry(cache, ref, cfg, csId, str),
              sets |-> Append(sets, cs), heap |-> [hp EXCEPT ![ref] = CallerAfterStrip(cfg)],
              logs |-> <<NoMatchInfo>>,
              cfgStr |-> str, configSet |-> csId]

-----------------------------------------------------------------------------
(* process *)

DECLARATION_TYPE_EXT == <<".", "d", ".", "t", "s">>

\* JS_JSX_REGEX.test(filePath): /\.jsx?$/
JS_JSX_REGEX(filePath) ==
  EndsWith(filePath, <<".", "j", "s">>) \/ EndsWith(filePath, <<".", "j", "s", "x">>)

\* TS_TSX_REGEX.test(filePath): /\.tsx?$/
TS_TSX_REGEX(filePath) ==
  EndsWith(filePath, <<".", "t", "s">>) \/ EndsWith(filePath, <<".", "t", "s", "x">>)

isDefinitionFile(filePath) == EndsWith(filePath, DECLARATION_TYPE_EXT)

isJsFile(filePath) == JS_JSX_REGEX(filePath)

isTsFile(filePath) == ~isDefinitionFile(filePath) /\ TS_TSX_REGEX(filePath)

\* the secondary transform never taken from the ConfigSet
babelJest_Never(cs, filePath) == FALSE

\* the allowJs test left out
allowJsOff_Never(cs) == FALSE

\* !configs.parsedTsConfig.options.allowJs
allowJsOff(cs) == parsedTsConfig(cs).options.allowJs # "true"

\* babelJest taken from the ConfigSet whatever the file is
babelJest_AlsoForStringified(cs, filePath) == hasBabelJestTransformer(cs)

\* const babelJest = shouldStringifyContent ? undefined : configs.babelJestTransformer
\* (TRUE when babelJest is defined)
babelJest(cs, filePath) ==
  IF shouldStringifyContent(cs, filePath) THEN FALSE ELSE hasBabelJestTransformer(cs)

\* the chain with the declaration test put first
Branch_DeclarationFirst(cs, filePath) ==
  IF isDefinitionFile(filePath) THEN "Declaration"
  ELSE IF shouldStringifyContent(cs, filePath) THEN "Stringify"
  ELSE IF allowJsOff(cs) /\ isJsFile(filePath) THEN "DisallowedJs"
  ELSE IF isJsFile(filePath) \/ isTsFile(filePath) THEN "Compile"
  ELSE "Unknown"

\* the if / else-if chain of process: the branch taken
Branch(cs, filePath) ==
  IF shouldStringifyContent(cs, filePath) THEN "Stringify"
  ELSE IF isDefinitionFile(filePath) THEN "Declaration"
  ELSE IF allowJsOff(cs) /\ isJsFile(filePath) THEN "DisallowedJs"
  ELSE IF isJsFile(filePath) \/ isTsFile(filePath) THEN "Compile"
  ELSE "Unknown"

Str(code) == [kind |-> "string", code |-> code]

\* configs.tsCompiler.compile(source, filePath): the compiler's output for this source
compile(source, filePath) == <<"compiled", "(">> \o source \o <<")">>

\* a declaration file passed through like any file that is not compiled
BranchResult_DeclarationKeepsSource(branch, source, filePath) ==
  IF branch = "Stringify" THEN Str(<<"module.exports=">> \o stringifyStr(source))
  ELSE IF branch = "Compile" THEN Str(compile(source, filePath))
  ELSE Str(source)

\* the value each branch assigns to result
BranchResult(branch, source, filePath) ==
  IF branch = "Stringify" THEN Str(<<"module.exports=">> \o stringifyStr(source))
  ELSE IF branch = "Declaration" THEN Str(<<>>)
  ELSE IF branch = "Compile" THEN Str(compile(source, filePath))
  ELSE Str(source)

Warn(template, filePath) ==
  [level |-> "warn", fileName |-> filePath, message |-> template, path |-> filePath]

Debug(message, filePath) ==
  [level |-> "debug", fileName |-> filePath, message |-> message, path |-> filePath]

\* one phrasing of the unknown-file warning, whether or not babel-jest is there
BranchLogs_OneUnknownMessage(branch, withBabel, filePath) ==
  IF branch = "DisallowedJs" THEN <<Warn("GotJsFileButAllowJsFalse", filePath)>>
  ELSE IF branch = "Unknown" THEN <<Warn("GotUnknownFileTypeWithoutBabel", filePath)>>
  ELSE <<>>

\* plain JS passed through without a word
BranchLogs_SilentOnJs(branch, withBabel, filePath) ==
  IF branch = "Unknown"
    THEN <<Warn(IF withBabel THEN "GotUnknownFileTypeWithBabel"
                ELSE "GotUnknownFileTypeWithoutBabel", filePath)>>
  ELSE <<>>

\* the log records the branch emits
BranchLogs(branch, withBabel, filePath) ==
  IF branch = "DisallowedJs" THEN <<Warn("GotJsFileButAllowJsFalse", filePath)>>
  ELSE IF branch = "Unknown"
    THEN <<Warn(IF withBabel THEN "GotUnknownFileTypeWithBabel"
                ELSE "GotUnknownFileTypeWithoutBabel", filePath)>>
  ELSE <<>>

\* the compile calls the branch makes (each reads configs.tsCompiler once)
BranchCompileCalls(branch, source, filePath) ==
  IF branch = "Compile" THEN <<[source |-> source, filePath |-> filePath]>> ELSE <<>>

\* the options handed on as they came
BabelOptions_AsGiven(transformOptions) == transformOptions.o

\* { ...transformOptions, instrument: false }
BabelOptions(transformOptions) ==
  [k \in DOMAIN transformOptions.o \cup {"instrument"} |->
     IF k = "instrument" THEN "false" ELSE transformOptions.o[k]]

\* babelJest.process(result, filePath, jestConfig, options): the secondary transform
\* returns a transformed source object, or the code as it was when it has nothing to do
babelProcess(result, outcome) ==
  IF outcome = "transformed"
    THEN [kind |-> "TransformedSource", code |-> <<"babel", "(">> \o result.code \o <<")">>]
    ELSE result

\* hooks.afterProcess is set when the hooks file exports it
hasAfterProcess(cs) == cs.hooksFile # "none"

\* hooks.afterProcess(args, result): undefined, or a value that replaces the result
afterProcess(cs, result) ==
  IF cs.hooksFile = "returnsValue"
    THEN [defined |-> TRUE, value |-> Str(<<"hooked">>)]
    ELSE [defined |-> FALSE, value |-> result]

\* the hook called and its answer dropped
FinalResult_HookIgnored(hasHook, hook, result) == result

\* if (newResult !== undefined) return newResult; ... return result
FinalResult(hasHook, hook, result) ==
  IF hasHook /\ hook.defined THEN hook.value ELSE result

\* process(input, filePath, jestConfig, transformOptions), with the outcome of the
\* secondary transform when it is called
process(cache, sets, hp, hooksFile, cfgStr, input, filePath, ref, transformOptions, outcome) ==
  LET cfr == configsFor(cache, sets, hp, hooksFile, cfgStr, ref)
  IN IF cfr.threw
       THEN [cfr |-> cfr, branch |-> "none", result |-> Str(<<>>), preHook |-> Str(<<>>),
             logs |-> <<Debug("processing", filePath)>> \o cfr.logs,
             compileCalls |-> <<>>, babelCalls |-> <<>>, hookCalls |-> <<>>]
     ELSE
       LET configs == cfr.sets[cfr.configSet]
           source == input
           withBabel == babelJest(configs, filePath)
           branch == Branch(configs, filePath)
           result1 == BranchResult(branch, source, filePath)
           result2 == IF withBabel THEN babelProcess(result1, outcome) ELSE result1
           hook == afterProcess(configs, result2)
       IN [cfr |-> cfr,
           branch |-> branch,
           preHook |-> result2,
           result |-> FinalResult(hasAfterProcess(configs), hook, result2),
           logs |-> <<Debug("processing", filePath)>> \o cfr.logs
                    \o BranchLogs(branch, withBabel, filePath)
                    \o (IF withBabel THEN <<Debug("calling babel-jest processor", filePath)>>
                        ELSE <<>>)
                    \o (IF hasAfterProcess(configs)
                          THEN <<Debug("calling afterProcess hook", filePath)>> ELSE <<>>),
           compileCalls |-> BranchCompileCalls(branch, source, filePath),
           babelCalls |-> IF withBabel
                            THEN <<[code |-> result1, filePath |-> filePath, jestConfig |-> ref,
                                    options |-> BabelOptions(transformOptions),
                                    returned |-> result2]>>
                            ELSE <<>>,
           hookCalls |-> IF hasAfterProcess(configs)
                           THEN <<[input |-> input, filePath |-> filePath, jestConfig |-> ref,
                                   transformOptions |-> transformOptions, result |-> result2]>>
                           ELSE <<>>]

-----------------------------------------------------------------------------
(* getCacheKey *)

\* sha1(...data): the digest of the concatenated data; the digest is kept as the
\* text it was taken of, so two digests are equal exactly when their texts are
sha1(data) == Flatten(data)

\* const { instrument = false, rootDir = configs.rootDir } = transformOptions
InstrumentOf(transformOptions) ==
  IF "instrument" \in DOMAIN transformOptions.o THEN transformOptions.o["instrument"] ELSE "false"

RootDirOf(transformOptions, configs) ==
  IF "rootDir" \in DOMAIN transformOptions.o THEN transformOptions.o["rootDir"] ELSE configs.rootDir

\* the fields handed to sha1 one after the other, nothing between them
CacheKeyData_NoSeparators(cfgStr, rootDir, instrument, fileContent, filePath) ==
  <<cfgStr, rootDir, <<"instrument:", IF instrument = "true" THEN "on" ELSE "off">>,
    fileContent, filePath>>

\* the data getCacheKey hands to sha1
CacheKeyData(cfgStr, rootDir, instrument, fileContent, filePath) ==
  <<cfgStr, <<NUL>>, rootDir, <<NUL>>,
    <<"instrument:", IF instrument = "true" THEN "on" ELSE "off">>,
    <<NUL>>, fileContent, <<NUL>>, filePath>>

\* getCacheKey(fileContent, filePath, _jestConfigStr, transformOptions), config = ref
getCacheKey(cache, sets, hp, hooksFile, cfgStr, fileContent, filePath, ref, transformOptions) ==
  LET cfr == configsFor(cache, sets, hp, hooksFile, cfgStr, ref)
  IN IF cfr.threw THEN [cfr |-> cfr, key |-> <<>>, logs |-> cfr.logs]
     ELSE LET configs == cfr.sets[cfr.configSet]
          IN [cfr |-> cfr,
              logs |-> cfr.logs \o <<Debug("computing cache key for", filePath)>>,
              key |-> sha1(CacheKeyData(cfr.cfgStr, RootDirOf(transformOptions, configs),
                                        InstrumentOf(transformOptions), fileContent, filePath))]

-----------------------------------------------------------------------------
(* The raw configurations, files and options the host hands in *)

Base ==
  [rootDir |-> <<"/", "bar", "/", "/", "dummy", "/", "..">>,
   name |-> "n1", cacheDirectory |-> "c1", globals |-> [dev |-> "true"]]

WithTsJest(cfg, t) == [cfg EXCEPT !.globals = ("ts-jest" :> t) @@ cfg.globals]

\* Base under another name and cache directory
Renamed == [Base EXCEPT !.name = "n2", !.cacheDirectory = "c2"]

\* Base with content matching \.html$ turned into a module exporting it
Stringifying == WithTsJest(Base, [DefaultTsJest EXCEPT !.stringifyContentPathRegex = "\\.html$"])

\* Base with a compiler configuration that cannot be parsed
Malformed == WithTsJest(Base, [DefaultTsJest EXCEPT !.tsconfig = "malformed"])

\* Base with plain JS handed to the compiler
AllowingJs == WithTsJest(Base, [DefaultTsJest EXCEPT !.tsconfig = "allowJs:true"])

\* Base rooted elsewhere
Moved == [Base EXCEPT !.rootDir = <<"/", "foo", "/", ".">>]

\* the heaps of the cache protocol's runs
CacheHeaps ==
  { <<Base, Base, Base>>,
    <<Base, Renamed, Base>>,
    <<Base, Stringifying, Malformed>>,
    <<Base, AllowingJs, Moved>>,
    <<Base, AllowingJs, Base>> }

\* the pairs of objects cache keys are compared over
KeyHeaps ==
  { <<Base, Base>>, <<Base, Renamed>>, <<Base, Stringifying>>,
    <<Base, AllowingJs>>, <<Base, Moved>> }

TsJestOptions ==
  [tsconfig : {"unset", "allowJs:true", "allowJs:false"},
   babelConfig : {"unset", "true"},
   stringifyContentPathRegex : {"unset", "\\.html$", "\\.ts$"}]

\* every combination of the plugin options process reads
ProcessConfigs == {WithTsJest(Base, t) : t \in TsJestOptions} \cup {Base, Malformed}

File(path, content) == [path |-> path, content |-> content]

Paths ==
  { <<"f", ".", "h", "t", "m", "l">>, <<"f", ".", "d", ".", "t", "s">>,
    <<"f", ".", "j", "s">>, <<"f", ".", "j", "s", "x">>,
    <<"f", ".", "t", "s">>, <<"f", ".", "t", "s", "x">>,
    <<"f", ".", "b", "a", "r">> }

Contents == { <<"a">>, <<"\"", "\\">> }

NoOptions == [present |-> FALSE, o |-> [instrument |-> "false"]]

Options(o) == [present |-> TRUE, o |-> o]

InstrumentOptions == {Options([instrument |-> "true"]), Options([instrument |-> "false"])}

\* the transformOptions process is called with: absent, instrument on or off, other fields
ProcessOptions ==
  {NoOptions} \cup InstrumentOptions
    \cup {Options([instrument |-> "true", supportsStaticESM |-> "true"]),
          Options([supportsStaticESM |-> "false"])}

RootDirs == { <<"/", "foo">>, <<"/", "bar">> }

KeyOptions ==
  InstrumentOptions
    \cup {Options([supportsStaticESM |-> "false"])}
    \cup {Options([rootDir |-> d]) : d \in RootDirs}
    \cup {Options([instrument |-> "true", rootDir |-> d]) : d \in RootDirs}

HooksFiles == {"none", "returnsUndefined", "returnsValue"}

BabelOutcomes == {"transformed", "unchanged"}

-----------------------------------------------------------------------------
(* The calls *)

NoProcess ==
  [branch |-> "none", result |-> Str(<<>>), preHook |-> Str(<<>>), compileCalls |-> <<>>,
   babelCalls |-> <<>>, hookCalls |-> <<>>]

Call(op, i, r, input, filePath, transformOptions, cfr, p, logs, key) ==
  [op |-> op, inst |-> i, ref |-> r, input |-> input, filePath |-> filePath,
   transformOptions |-> transformOptions,
   threw |-> cfr.threw, step |-> cfr.step, configSet |-> cfr.configSet,
   known |-> firstConfigSet[r],
   lenBefore |-> Len(cachedConfigSets), builtBefore |-> Len(configSets),
   branch |-> p.branch, result |-> p.result, preHook |-> p.preHook, logs |-> logs,
   compileCalls |-> p.compileCalls, babelCalls |-> p.babelCalls, hookCalls |-> p.hookCalls,
   key |-> key]

\* what a configsFor made by instance i for object r leaves behind
Commit(i, r, cfr) ==
  /\ cachedConfigSets' = cfr.cache
  /\ configSets' = cfr.sets
  /\ heap' = cfr.heap
  /\ transformCfgStr' = [transformCfgStr EXCEPT ![i] = cfr.cfgStr]
  /\ firstConfigSet' =
       IF ~cfr.threw /\ firstConfigSet[r] = 0
         THEN [firstConfigSet EXCEPT ![r] = cfr.configSet] ELSE firstConfigSet
  /\ lastConfigSet' =
       IF cfr.threw THEN lastConfigSet ELSE [lastConfigSet EXCEPT ![r] = cfr.configSet]
  /\ UNCHANGED env

CallConfigsFor(i, r) ==
  \E cfr \in {configsFor(cachedConfigSets, configSets, heap, env.hooksFile, transformCfgStr[i], r)} :
     /\ Commit(i, r, cfr)
     /\ last' = Call("configsFor", i, r, <<>>, <<>>, NoOptions, cfr, NoProcess, cfr.logs, <<>>)

CallProcess(i, r, f, opts, outcome) ==
  \E p \in {process(cachedConfigSets, configSets, heap, env.hooksFile, transformCfgStr[i],
                   f.content, f.path, r, opts, outcome)} :
     /\ outcome = "transformed" \/ p.babelCalls # <<>>
     /\ Commit(i, r, p.cfr)
     /\ last' = Call("process", i, r, f.content, f.path, opts, p.cfr, p, p.logs, <<>>)

CallGetCacheKey(i, r, f, opts) ==
  \E k \in {getCacheKey(cachedConfigSets, configSets, heap, env.hooksFile, transformCfgStr[i],
                       f.content, f.path, r, opts)} :
     /\ Commit(i, r, k.cfr)
     /\ last' = Call("getCacheKey", i, r, f.content, f.path, opts, k.cfr, NoProcess, k.logs, k.key)

Refs == 1..Len(heap)

Start(h, e) ==
  /\ heap = h
  /\ env = e
  /\ cachedConfigSets = <<>>
  /\ configSets = <<>>
  /\ transformCfgStr = [i \in Instances |-> <<Undefined>>]
  /\ firstConfigSet = [r \in 1..Len(h) |-> 0]
  /\ lastConfigSet = [r \in 1..Len(h) |-> 0]
  /\ last = [op |-> "none", inst |-> 0, ref |-> 0, input |-> <<>>, filePath |-> <<>>,
             transformOptions |-> NoOptions, threw |-> FALSE, step |-> 0, configSet |-> 0,
             known |-> 0, lenBefore |-> 0, builtBefore |-> 0,
             branch |-> "none", result |-> Str(<<>>), preHook |-> Str(<<>>), logs |-> <<>>,
             compileCalls |-> <<>>, babelCalls |-> <<>>, hookCalls |-> <<>>, key |-> <<>>]

Env(hooksFile, files, processOptions, keyOptions) ==
  [hooksFile |-> hooksFile, files |-> files,
   processOptions |-> processOptions, keyOptions |-> keyOptions]

ConfigsForStep == \E i \in Instances, r \in Refs : CallConfigsFor(i, r)

ProcessStep ==
  \E i \in Instances, r \in Refs, f \in env.files, opts \in env.processOptions,
     outcome \in BabelOutcomes : CallProcess(i, r, f, opts, outcome)

GetCacheKeyStep ==
  \E i \in Instances, r \in Refs, f \in env.files, opts \in env.keyOptions :
     CallGetCacheKey(i, r, f, opts)

(* The cache protocol: any interleaving of the three entry points, on any instance,
   over objects of equal and of different content. *)
CacheEnv ==
  Env("none", {File(<<"f", ".", "t", "s">>, <<"a">>)},
      {NoOptions}, {Options([instrument |-> "true"]), Options([rootDir |-> <<"/", "foo">>])})

Init == \E h \in CacheHeaps : Start(h, CacheEnv)

Next == ConfigsForStep \/ ProcessStep \/ GetCacheKeyStep

Spec == Init /\ [][Next]_vars

(* process alone: every configuration of the plugin options on every kind of file. *)
ProcessInit ==
  \E c \in ProcessConfigs, h \in HooksFiles, p \in Paths, c2 \in Contents,
     opts \in ProcessOptions :
       Start(<<c>>, Env(h, {File(p, c2)}, {opts}, {}))

ProcessNext == ProcessStep

ProcessSpec == ProcessInit /\ [][ProcessNext]_vars

(* getCacheKey alone: a pair of configurations, every file and set of options. *)
Files == {File(p, c) : p \in Paths, c \in Contents}

KeyInit ==
  \E h \in KeyHeaps, f \in Files, opts \in KeyOptions :
     Start(h, Env("none", {f}, {}, {opts}))

KeyNext == GetCacheKeyStep

KeySpec == KeyInit /\ [][KeyNext]_vars

(* getCacheKey on contents, paths and root directories that run into one another or
   hold the separator themselves. *)
EncContents ==
  { <<"x">>, <<"x", "y">>, <<"x", NUL, "y">>, <<"x", NUL, "instrument:", "off", NUL, "x">> }

EncPaths == { <<"z">>, <<"y", "z">>, <<"y", NUL, "z">> }

EncRootDirs == { <<"/", "r">>, <<"/", "r", NUL, "instrument:", "on", NUL, "x">> }

EncFiles == {File(p, c) : p \in EncPaths, c \in EncContents}

EncOptions ==
  {Options([rootDir |-> d, instrument |-> b]) : d \in EncRootDirs, b \in {"true", "false"}}

EncodingInit ==
  \E f \in EncFiles, opts \in EncOptions :
     Start(<<Base, AllowingJs>>, Env("none", {f}, {}, {opts}))

EncodingNext == GetCacheKeyStep

EncodingSpec == EncodingInit /\ [][EncodingNext]_vars

(* configsFor on raw configurations that carry top-level keys of their own under the
   names the signature uses. *)
RawKeyValue(k) ==
  IF k = "tsconfig" THEN [options |-> [allowJs |-> "true"], raw |-> "raw-tsconfig"]
  ELSE IF k = "digest" THEN "raw-digest"
  ELSE "raw-babel"

WithKeys(cfg, keys) == [k \in keys |-> RawKeyValue(k)] @@ cfg

SignatureConfigs ==
  { WithKeys(WithTsJest(Base, t), keys) :
      t \in {o \in TsJestOptions : /\ o.stringifyContentPathRegex = "unset"
                                    /\ o.tsconfig # "allowJs:false"},
      keys \in SUBSET {"digest", "babel", "tsconfig"} }

SignatureInit == \E c \in SignatureConfigs : Start(<<c>>, CacheEnv)

SignatureNext == ConfigsForStep

SignatureSpec == SignatureInit /\ [][SignatureNext]_vars

-----------------------------------------------------------------------------
(* Claims about the ConfigSet cache *)

Resolved(r) == lastConfigSet[r] # 0

SameContent(a, b) == stringify(heap[a]) = stringify(heap[b])

EntriesFor(r) ==
  {i \in 1..Len(cachedConfigSets) : cachedConfigSets[i].serialized = stringify(heap[r])}

BuiltFor(r) ==
  {i \in 1..Len(configSets) : SameContent(configSets[i].jestConfig, r)}

\* C1: objects of equal serialized content, resolved on any instances, get the very
\* same ConfigSet; however many of them were resolved, the cache holds exactly one
\* entry for that content and exactly one ConfigSet was built for it.
C1_EqualContentSharesOneConfigSet ==
  \A a \in Refs : Resolved(a) =>
    /\ Cardinality(EntriesFor(a)) = 1
    /\ Cardinality(BuiltFor(a)) = 1
    /\ \A b \in Refs : Resolved(b) /\ SameContent(a, b) => lastConfigSet[a] = lastConfigSet[b]

\* three distinct objects of equal content, all resolved, the latest by its content
C1_Witness ==
  /\ \A a, b \in Refs : Resolved(a) /\ SameContent(a, b)
  /\ Len(heap) >= 3
  /\ last.step = 2
  /\ \E i, j \in Instances : i # j /\ transformCfgStr[i] = transformCfgStr[j]

\* C2: a call of configsFor, getCacheKey or process that passes an object some earlier
\* call resolved returns the ConfigSet that first call returned, appends no cache
\* entry and builds no ConfigSet.
C2_IdempotentByReference ==
  last.op # "none" /\ last.known # 0 =>
    /\ ~last.threw
    /\ last.configSet = last.known
    /\ Len(cachedConfigSets) = last.lenBefore
    /\ Len(configSets) = last.builtBefore

\* process after getCacheKey with the same object, content-equal objects and other
\* configurations resolved in between: the entry had been handed to another object
C2_Witness ==
  /\ last.op = "process"
  /\ last.known # 0
  /\ last.step = 2
  /\ Len(cachedConfigSets) >= 2

FreshKey(r) ==
  getCacheKey(<<>>, <<>>, heap, env.hooksFile, <<Undefined>>,
              last.input, last.filePath, r, last.transformOptions).key

\* C4: the key getCacheKey returns is the key a process with an empty cache returns for
\* the same file content, file path, options and configuration content, whatever calls
\* came before on this or another instance.
C4_KeyIsHistoryIndependent ==
  last.op = "getCacheKey" /\ ~last.threw =>
    \A r \in Refs : SameContent(r, last.ref) => last.key = FreshKey(r)

\* an identity hit on an instance whose previous call was for another signature
C4_Witness ==
  /\ last.op = "getCacheKey"
  /\ last.step = 1
  /\ \E i \in Instances : i # last.inst /\ transformCfgStr[i] # transformCfgStr[last.inst]
                          /\ transformCfgStr[i] # <<Undefined>>
  /\ Len(cachedConfigSets) >= 2

StrippedEqual(a, b) ==
  stringify(JestForSignature(heap[a])) = stringify(JestForSignature(heap[b]))

\* C5 as claimed: configurations equal once name, cacheDirectory and globals['ts-jest']
\* are stripped share one ConfigSet.
C5_StrippedEqualSharesConfigSet ==
  \A a, b \in Refs :
    Resolved(a) /\ Resolved(b) /\ StrippedEqual(a, b) => lastConfigSet[a] = lastConfigSet[b]

\* C5, amended: two resolved configurations share a ConfigSet exactly when their
\* full serializations are equal; a difference in name, cacheDirectory or
\* globals['ts-jest'] gives each its own entry and ConfigSet.
C5_SharedExactlyWhenSerializedEqual ==
  \A a, b \in Refs :
    Resolved(a) /\ Resolved(b) =>
      (lastConfigSet[a] = lastConfigSet[b] <=> SameContent(a, b))

\* two content-equal objects and one that differs in the stripped fields only, all resolved
C5_Witness ==
  /\ \A a \in Refs : Resolved(a)
  /\ \E a, b \in Refs : a # b /\ SameContent(a, b)
  /\ \E a, b \in Refs : ~SameContent(a, b) /\ StrippedEqual(a, b)

\* a configuration whose compiler configuration cannot be parsed
FailingConfiguration(r) == TsJestOf(heap[r]).tsconfig = "malformed"

BuildAttempted(logs) == \E k \in 1..Len(logs) : logs[k] = NoMatchInfo

\* C14: a call of configsFor, process or getCacheKey whose ConfigSet cannot be built
\* throws to its caller and leaves the cache, the ConfigSets built and every instance's
\* signature as they were, so the calls after it see the state the calls before it left;
\* a call with the failing configuration attempts the build each time, and a call with a
\* configuration that can be built returns a ConfigSet whatever failed before it.
C14_FailedBuildLeavesNoTrace ==
  [][ /\ FailingConfiguration(last'.ref) =>
           last'.threw /\ last'.step = 3 /\ BuildAttempted(last'.logs)
      /\ ~FailingConfiguration(last'.ref) => ~last'.threw /\ last'.configSet # 0
      /\ last'.threw =>
           /\ cachedConfigSets' = cachedConfigSets
           /\ configSets' = configSets
           /\ transformCfgStr' = transformCfgStr
           /\ firstConfigSet' = firstConfigSet /\ lastConfigSet' = lastConfigSet
           /\ last'.result = Str(<<>>) /\ last'.key = <<>> ]_vars

\* process fails for a configuration after two others were resolved
C14_Witness ==
  /\ last.op = "process" /\ last.threw
  /\ FailingConfiguration(last.ref)
  /\ Len(cachedConfigSets) = 2
  /\ \A i \in Instances : transformCfgStr[i] # <<Undefined>>

\* entry i as it is after the step, against entry i as it was
EntryKept(i) ==
  /\ cachedConfigSets'[i].configSet = cachedConfigSets[i].configSet
  /\ cachedConfigSets'[i].transformerCfgStr = cachedConfigSets[i].transformerCfgStr
  /\ cachedConfigSets'[i].serialized = cachedConfigSets[i].serialized
  /\ cachedConfigSets'[i].value # cachedConfigSets[i].value =>
       /\ last'.step = 2
       /\ cachedConfigSets'[i].value = last'.ref
       /\ stringify(heap[last'.ref]) = cachedConfigSets[i].serialized

\* C18: over any sequence of configsFor, getCacheKey and process calls the cache never
\* loses an entry, every entry stays at its place with its ConfigSet, its transform
\* signature and its serialized identity, and the only change made to an entry is the
\* object it stores, replaced in the serialized-match step by the object of the call,
\* whose serialization is the entry's; a new entry is added last, by the build step.
C18_CacheIsAppendOnly ==
  [][ /\ Len(cachedConfigSets') >= Len(cachedConfigSets)
      /\ \A i \in 1..Len(cachedConfigSets) : EntryKept(i)
      /\ Len(cachedConfigSets') > Len(cachedConfigSets) =>
           /\ Len(cachedConfigSets') = Len(cachedConfigSets) + 1
           /\ last'.step = 3 /\ ~last'.threw ]_vars

\* the first of two entries handed to another object of its content
C18_Witness ==
  /\ last.step = 2
  /\ Len(cachedConfigSets) >= 2
  /\ cachedConfigSets[1].value = last.ref
  /\ configSets[cachedConfigSets[1].configSet].jestConfig # last.ref

\* C19: in every state of the cache no two entries have the same serialized identity,
\* no two entries store the same object, and every entry's serialized identity is the
\* serialization of the object it stores; so no configuration content has two entries.
C19_OneEntryPerContent ==
  /\ \A i, j \in 1..Len(cachedConfigSets) :
       i # j => /\ cachedConfigSets[i].serialized # cachedConfigSets[j].serialized
                /\ cachedConfigSets[i].value # cachedConfigSets[j].value
  /\ \A i \in 1..Len(cachedConfigSets) :
       cachedConfigSets[i].serialized = stringify(heap[cachedConfigSets[i].value])
  /\ \A r \in Refs : Cardinality(EntriesFor(r)) <= 1

\* two entries, one of them answering for two objects of its content in turn
C19_Witness ==
  /\ Len(cachedConfigSets) = 2
  /\ \A r \in Refs : Resolved(r)
  /\ \E a, b \in Refs : a # b /\ SameContent(a, b) /\ lastConfigSet[a] = lastConfigSet[b]
  /\ last.step = 2 /\ last.known # 0

\* C21: a call of configsFor, getCacheKey or process that passes an object an earlier
\* call resolved is answered by the identity scan, with no serialization of the
\* configuration, whatever calls came in between.
C21_ResolvedObjectIsFoundByIdentity ==
  last.op # "none" /\ last.known # 0 => last.step = 1

\* object r after the step, field by field against what it was
ObjectKept(r) ==
  /\ DOMAIN heap'[r] = DOMAIN heap[r]
  /\ heap'[r].name = heap[r].name
  /\ heap'[r].cacheDirectory = heap[r].cacheDirectory
  /\ heap'[r].rootDir = heap[r].rootDir
  /\ DOMAIN heap'[r].globals = DOMAIN heap[r].globals
  /\ StringifyGlobals(heap'[r].globals) = StringifyGlobals(heap[r].globals)

\* C23: no call of configsFor, getCacheKey or process changes a raw configuration
\* object: its name, its cacheDirectory, its rootDir and its globals, 'ts-jest' key
\* included, are after the call what they were before, also when the call built a
\* ConfigSet and cleared those fields for the signature.
C23_RawConfigurationUntouched ==
  [][ Len(heap') = Len(heap) /\ \A r \in Refs : ObjectKept(r) ]_vars

\* a ConfigSet just built for a configuration with plugin options, a second entry
C23_Witness ==
  /\ last.step = 3 /\ ~last.threw
  /\ Len(cachedConfigSets) >= 2
  /\ "ts-jest" \in DOMAIN heap[last.ref].globals
  /\ heap[last.ref].name = "n1" /\ heap[last.ref].cacheDirectory = "c1"
  /\ cachedConfigSets[Len(cachedConfigSets)].serialized = stringify(heap[last.ref])
  /\ last.op = "process"

SignatureKeys == {"digest", "babel", "tsconfig"}

\* the raw configuration's own part of a signature: all its keys but the three the
\* ConfigSet supplies, name and cacheDirectory cleared, globals without 'ts-jest'
RawPart(raw) ==
  [k \in DOMAIN raw \ SignatureKeys |->
     IF k \in {"name", "cacheDirectory"} THEN Undefined
     ELSE IF k = "globals" THEN [g \in DOMAIN raw.globals \ {"ts-jest"} |-> raw.globals[g]]
     ELSE raw[k]]

\* the three components as the ConfigSet built for the entry gives them
ConfigSetPart(cs) ==
  [digest |-> "ts-jest-digest",
   babel |-> IF cs.tsJest.babelConfig = "true" THEN "babelrc" ELSE Undefined,
   tsconfig |-> [options |-> [allowJs |-> IF cs.tsJest.tsconfig = "allowJs:true"
                                           THEN "true" ELSE Undefined],
                 raw |-> cs.tsJest.tsconfig]]

\* C24: whatever top-level keys the raw configuration carries, the signature of the
\* entry built for it has the ConfigSet's digest, babel configuration and compiler
\* configuration as its digest, babel and tsconfig components, next to the raw
\* configuration's other keys; no key of the raw configuration takes their place.
C24_ConfigSetComponentsAlwaysInSignature ==
  \A e \in 1..Len(cachedConfigSets) :
    LET cs == configSets[cachedConfigSets[e].configSet]
    IN cachedConfigSets[e].transformerCfgStr
         = stringify(ConfigSetPart(cs) @@ RawPart(heap[cs.jestConfig]))

-----------------------------------------------------------------------------
(* Claims about process *)

Processed == last.op = "process" /\ ~last.threw

LastTsJest == TsJestOf(heap[last.ref])

PathMatchesStringify ==
  /\ LastTsJest.stringifyContentPathRegex # "unset"
  /\ EndsWith(last.filePath, StringifyPattern(LastTsJest.stringifyContentPathRegex))

PathIsDeclaration == EndsWith(last.filePath, <<".", "d", ".", "t", "s">>)

PathIsJs ==
  \/ EndsWith(last.filePath, <<".", "j", "s">>)
  \/ EndsWith(last.filePath, <<".", "j", "s", "x">>)

PathIsTs ==
  \/ EndsWith(last.filePath, <<".", "t", "s">>)
  \/ EndsWith(last.filePath, <<".", "t", "s", "x">>)

AllowJsIsTrue == LastTsJest.tsconfig = "allowJs:true"

AllowJsUnsetOrFalse == LastTsJest.tsconfig \in {"unset", "allowJs:false"}

BabelConfigured == LastTsJest.babelConfig = "true"

Warnings == SelectSeq(last.logs, LAMBDA l : l.level = "warn")

\* the branches in the order of the claim, each with its own condition
BranchOrder ==
  << [name |-> "Stringify", matches |-> PathMatchesStringify],
     [name |-> "Declaration", matches |-> PathIsDeclaration],
     [name |-> "DisallowedJs", matches |-> PathIsJs /\ ~AllowJsIsTrue],
     [name |-> "Compile", matches |-> PathIsJs \/ PathIsTs],
     [name |-> "Unknown", matches |-> TRUE] >>

FirstMatch ==
  LET i == CHOOSE i \in 1..Len(BranchOrder) :
             /\ BranchOrder[i].matches
             /\ \A j \in 1..(i - 1) : ~BranchOrder[j].matches
  IN BranchOrder[i].name

\* what only the selected branch does
OneBranchActed ==
  /\ (last.compileCalls # <<>>) <=> (last.branch = "Compile")
  /\ Len(Warnings) = IF last.branch \in {"DisallowedJs", "Unknown"} THEN 1 ELSE 0

\* C6 as claimed: first match in the order Stringify, Declaration, DisallowedJs, Compile,
\* Unknown; a path matching the stringify pattern and the declaration extension is
\* stringified; a non-declaration TS/TSX path always takes Compile.
C6_FirstMatchAndTsAlwaysCompiles ==
  Processed =>
    /\ last.branch = FirstMatch
    /\ OneBranchActed
    /\ (PathMatchesStringify /\ PathIsDeclaration => last.branch = "Stringify")
    /\ (PathIsTs /\ ~PathIsDeclaration => last.branch = "Compile")

\* C6, amended: process takes exactly one branch, the first matching one in the order
\* Stringify, Declaration, DisallowedJs, Compile, Unknown; a path matching the stringify
\* pattern and the declaration extension is stringified; a non-declaration TS/TSX path
\* that does not match the stringify pattern takes Compile whatever allowJs is.
C6_FirstMatchWins ==
  Processed =>
    /\ last.branch = FirstMatch
    /\ OneBranchActed
    /\ (PathMatchesStringify /\ PathIsDeclaration => last.branch = "Stringify")
    /\ (PathIsTs /\ ~PathIsDeclaration /\ ~PathMatchesStringify => last.branch = "Compile")

\* a declaration file that the stringify pattern matches too
C6_Witness ==
  /\ Processed
  /\ PathMatchesStringify /\ PathIsDeclaration
  /\ last.branch = "Stringify"

\* C7: a process call compiles at most once, and not at all (the compiler handle is
\* not even read) for a declaration file, for JS/JSX when allowJs is not true, for a
\* path the stringify pattern matches, or for an unknown extension.
C7_NoCompileOutsideCompileBranch ==
  last.op = "process" =>
    /\ Len(last.compileCalls) <= 1
    /\ (\/ PathIsDeclaration
        \/ PathIsJs /\ ~AllowJsIsTrue
        \/ PathMatchesStringify
        \/ ~PathIsJs /\ ~PathIsTs) => last.compileCalls = <<>>

\* plain JS with allowJs off, not stringified
C7_Witness ==
  /\ Processed
  /\ PathIsJs /\ ~AllowJsIsTrue /\ ~PathMatchesStringify
  /\ last.compileCalls = <<>>

\* C8 as claimed: a declaration file always gives the empty string.
C8_DeclarationAlwaysEmpty ==
  Processed /\ PathIsDeclaration => last.result = Str(<<>>)

\* C8, amended: a declaration file that the stringify pattern does not match gives the
\* empty string whatever its content, when no secondary transform is configured and the
\* afterProcess hook is absent or returns undefined.
C8_DeclarationEmptyWithoutBabelAndHook ==
  Processed /\ PathIsDeclaration /\ ~PathMatchesStringify /\ ~BabelConfigured
            /\ env.hooksFile # "returnsValue"
    => last.result = Str(<<>>)

\* a declaration file with content, a hook that returns undefined
C8_Witness ==
  /\ Processed
  /\ PathIsDeclaration /\ ~PathMatchesStringify /\ ~BabelConfigured
  /\ env.hooksFile = "returnsUndefined"
  /\ last.input = <<"\"", "\\">>
  /\ last.result = Str(<<>>)

\* the JSON string literals of the contents
JsonLiteral(c) ==
  CASE c = <<"a">> -> <<"\"", "a", "\"">>
    [] c = <<"\"", "\\">> -> <<"\"", "\\", "\"", "\\", "\\", "\"">>

ModuleExports(c) == Str(<<"module.exports=">> \o JsonLiteral(c))

\* C9 as claimed: a path the stringify pattern matches always gives module.exports=
\* followed by the JSON literal of the content.
C9_StringifiedAlways ==
  Processed /\ PathMatchesStringify => last.result = ModuleExports(last.input)

\* C9, amended: a path the stringify pattern matches gives module.exports= followed by
\* the JSON literal of the content, whatever the extension and whether or not a
\* secondary transform is configured, when the afterProcess hook is absent or returns
\* undefined.
C9_StringifiedUnlessHookReplaces ==
  Processed /\ PathMatchesStringify /\ env.hooksFile # "returnsValue"
    => /\ last.result = ModuleExports(last.input)
       /\ last.babelCalls = <<>>

\* a .ts file stringified, characters to escape, a secondary transform configured
C9_Witness ==
  /\ Processed
  /\ PathMatchesStringify /\ PathIsTs /\ ~PathIsDeclaration
  /\ BabelConfigured
  /\ last.input = <<"\"", "\\">>
  /\ env.hooksFile = "returnsUndefined"

\* C10: JS/JSX that the stringify pattern does not match, allowJs unset or false, no
\* secondary transform, no afterProcess hook: process returns normally, with the input
\* unchanged, after exactly one warning, which names the file.
C10_DisallowedJsPassesThroughWithOneWarning ==
  last.op = "process" /\ PathIsJs /\ ~PathMatchesStringify /\ AllowJsUnsetOrFalse
                      /\ ~BabelConfigured /\ env.hooksFile = "none"
    => /\ ~last.threw
       /\ last.result = Str(last.input)
       /\ Len(Warnings) = 1
       /\ Warnings[1].message = "GotJsFileButAllowJsFalse"
       /\ Warnings[1].fileName = last.filePath
       /\ Warnings[1].path = last.filePath

\* a .jsx file with allowJs unset
C10_Witness ==
  /\ last.op = "process"
  /\ EndsWith(last.filePath, <<".", "j", "s", "x">>)
  /\ LastTsJest.tsconfig = "unset" /\ ~BabelConfigured /\ env.hooksFile = "none"
  /\ ~PathMatchesStringify
  /\ last.result = Str(last.input)

PathIsUnknown ==
  ~PathMatchesStringify /\ ~PathIsDeclaration /\ ~PathIsJs /\ ~PathIsTs

UnknownWarning ==
  IF BabelConfigured THEN "GotUnknownFileTypeWithBabel" ELSE "GotUnknownFileTypeWithoutBabel"

OneUnknownWarning ==
  /\ Len(Warnings) = 1
  /\ Warnings[1].message = UnknownWarning
  /\ Warnings[1].path = last.filePath

\* the secondary transform was called once, on the content as it came
PipedUnchanged ==
  /\ Len(last.babelCalls) = 1
  /\ last.babelCalls[1].code = Str(last.input)

\* C11 as claimed: an unknown extension gives exactly one warning, the 'with fallback'
\* text exactly when a secondary transform is configured; the result is the input
\* unchanged without a secondary transform, and the secondary transform's output on
\* the unchanged content with one.
C11_UnknownAlwaysPassesThrough ==
  Processed /\ PathIsUnknown =>
    /\ OneUnknownWarning
    /\ ~BabelConfigured => last.result = Str(last.input)
    /\ BabelConfigured => PipedUnchanged /\ last.result = last.babelCalls[1].returned

\* C11, amended: an unknown extension gives exactly one warning, the 'with fallback'
\* text exactly when a secondary transform is configured; when the afterProcess hook is
\* absent or returns undefined the result is the input unchanged without a secondary
\* transform, and the secondary transform's output on the unchanged content with one.
C11_UnknownPassesThroughUnlessHookReplaces ==
  Processed /\ PathIsUnknown =>
    /\ OneUnknownWarning
    /\ last.compileCalls = <<>>
    /\ BabelConfigured => PipedUnchanged
    /\ ~BabelConfigured => last.babelCalls = <<>>
    /\ env.hooksFile # "returnsValue" =>
         /\ ~BabelConfigured => last.result = Str(last.input)
         /\ BabelConfigured => last.result = last.babelCalls[1].returned

\* a .bar file handed to a secondary transform that rewrites it
C11_Witness ==
  /\ Processed
  /\ PathIsUnknown /\ BabelConfigured
  /\ env.hooksFile = "returnsUndefined"
  /\ Warnings[1].message = "GotUnknownFileTypeWithBabel"
  /\ last.result.kind = "TransformedSource"

\* what each branch hands on, by the cases of the claims
BranchOutput ==
  IF PathMatchesStringify THEN ModuleExports(last.input)
  ELSE IF PathIsDeclaration THEN Str(<<>>)
  ELSE IF PathIsJs /\ ~AllowJsIsTrue THEN Str(last.input)
  ELSE IF PathIsJs \/ PathIsTs THEN Str(<<"compiled", "(">> \o last.input \o <<")">>)
  ELSE Str(last.input)

PipedOnce ==
  /\ Len(last.babelCalls) = 1
  /\ last.babelCalls[1].code = BranchOutput
  /\ last.preHook = last.babelCalls[1].returned

\* C12 as claimed: with a secondary transform configured, whichever branch was taken,
\* its output is passed exactly once to the secondary transform and the value process
\* has before the afterProcess hook is what the secondary transform returned.
C12_EveryBranchIsPiped ==
  Processed /\ BabelConfigured => PipedOnce

\* C12, amended: with a secondary transform configured, the output of the Declaration,
\* DisallowedJs, Compile or Unknown branch is passed exactly once to the secondary
\* transform and the value process has before the afterProcess hook is what the
\* secondary transform returned; a stringified file is not passed on, and the value
\* before the hook is the Stringify branch's output.
C12_EveryBranchButStringifyIsPiped ==
  Processed /\ BabelConfigured =>
    /\ ~PathMatchesStringify => PipedOnce
    /\ PathMatchesStringify => last.babelCalls = <<>> /\ last.preHook = BranchOutput

\* a declaration file: the empty string goes through the secondary transform
C12_Witness ==
  /\ Processed
  /\ BabelConfigured /\ PathIsDeclaration /\ ~PathMatchesStringify
  /\ Len(last.babelCalls) = 1
  /\ last.preHook.kind = "TransformedSource"
  /\ LastTsJest.stringifyContentPathRegex # "unset"

GivenOptions ==
  IF last.transformOptions.present THEN last.transformOptions.o ELSE [instrument |-> "false"]

GivenFields ==
  IF last.transformOptions.present THEN DOMAIN last.transformOptions.o ELSE {}

\* C13: every call of the secondary transform gets instrument = false, whatever
\* transformOptions is (absent, instrument true, instrument false), every other
\* field of transformOptions as it was, the file path and the raw configuration object
\* process was called with.
C13_SecondaryNeverInstruments ==
  last.op = "process" =>
    \A k \in 1..Len(last.babelCalls) :
      LET call == last.babelCalls[k]
      IN /\ call.options["instrument"] = "false"
         /\ DOMAIN call.options = GivenFields \cup {"instrument"}
         /\ \A f \in GivenFields \ {"instrument"} : call.options[f] = GivenOptions[f]
         /\ call.filePath = last.filePath
         /\ call.jestConfig = last.ref

\* instrument on and another field given
C13_Witness ==
  /\ last.op = "process"
  /\ last.babelCalls # <<>>
  /\ last.transformOptions.present
  /\ GivenFields = {"instrument", "supportsStaticESM"}
  /\ GivenOptions["instrument"] = "true"

\* the result as it stands when the hook is reached: the branch's, or the secondary
\* transform's when it was called
ResultBeforeHook ==
  IF last.babelCalls # <<>> THEN last.babelCalls[1].returned ELSE BranchOutput

HookCalledOnce ==
  /\ Len(last.hookCalls) = 1
  /\ last.hookCalls[1].input = last.input
  /\ last.hookCalls[1].filePath = last.filePath
  /\ last.hookCalls[1].jestConfig = last.ref
  /\ last.hookCalls[1].transformOptions = last.transformOptions
  /\ last.hookCalls[1].result = ResultBeforeHook

\* C22: when the ConfigSet exposes an afterProcess hook, process calls it exactly once,
\* after the branch and the secondary transform, with the arguments process was called
\* with (the content as it came) and the result so far, and returns the hook's value when
\* it is defined and the result unchanged when it is undefined; with no hook the result
\* is returned as it is.
C22_HookCalledOnceAndObeyed ==
  Processed =>
    /\ env.hooksFile = "none" => last.hookCalls = <<>> /\ last.result = ResultBeforeHook
    /\ env.hooksFile = "returnsUndefined" => HookCalledOnce /\ last.result = ResultBeforeHook
    /\ env.hooksFile = "returnsValue" => HookCalledOnce /\ last.result = Str(<<"hooked">>)

\* a compiled file, rewritten by the secondary transform, replaced by the hook
C22_Witness ==
  /\ Processed
  /\ env.hooksFile = "returnsValue"
  /\ last.branch = "Compile"
  /\ last.hookCalls[1].result.kind = "TransformedSource"
  /\ last.hookCalls[1].input # last.hookCalls[1].result.code
  /\ last.result = Str(<<"hooked">>)

-----------------------------------------------------------------------------
(* Claims about getCacheKey *)

\* what a configuration comes to once resolved: the ConfigSet derived from it and the
\* raw configuration without its run-specific fields
EffectiveConfiguration(r) ==
  [configSet |-> [NewConfigSet(r, heap[r], env.hooksFile) EXCEPT !.jestConfig = 0],
   jest |-> stringify(JestForSignature(heap[r]))]

EffectiveRootDir(r, opts) ==
  RootDirOf(opts, NewConfigSet(r, heap[r], env.hooksFile))

\* the five inputs of a cache key in which a call (r, f, opts) differs from the latest
Differences(r, f, opts) ==
  (IF f.content # last.input THEN {"file content"} ELSE {})
    \cup (IF f.path # last.filePath THEN {"file path"} ELSE {})
    \cup (IF InstrumentOf(opts) # InstrumentOf(last.transformOptions)
            THEN {"instrument"} ELSE {})
    \cup (IF EffectiveRootDir(r, opts) # EffectiveRootDir(last.ref, last.transformOptions)
            THEN {"root directory"} ELSE {})
    \cup (IF EffectiveConfiguration(r) # EffectiveConfiguration(last.ref)
            THEN {"configuration"} ELSE {})

\* the key the next call getCacheKey(f.content, f.path, _, opts) with config r returns on instance i
NextKey(i, r, f, opts) ==
  getCacheKey(cachedConfigSets, configSets, heap, env.hooksFile, transformCfgStr[i],
              f.content, f.path, r, opts).key

\* C3: two getCacheKey calls that differ in exactly one of file content, file path,
\* instrument flag, root directory and effective configuration return different keys;
\* two calls that agree on all five return the same key.
C3_KeyChangesExactlyWithItsInputs ==
  last.op = "getCacheKey" /\ ~last.threw =>
    \A i \in Instances, r \in Refs, f \in Files, opts \in KeyOptions :
      LET d == Differences(r, f, opts)
      IN /\ Cardinality(d) = 1 => NextKey(i, r, f, opts) # last.key
         /\ d = {} => NextKey(i, r, f, opts) = last.key

LastFile == File(last.filePath, last.input)

\* the signature instance i holds after configsFor(r)
NextSignature(i, r) ==
  configsFor(cachedConfigSets, configSets, heap, env.hooksFile, transformCfgStr[i], r).cfgStr

\* r gives the signature and the key the latest call gave, on any instance
SameSignatureAndKey(r) ==
  \A i \in Instances :
    /\ NextSignature(i, r) = transformCfgStr[last.inst]
    /\ NextKey(i, r, LastFile, last.transformOptions) = last.key

\* C16 as claimed: configurations that differ only in name, cacheDirectory and
\* globals['ts-jest'] have the same transform signature and, for the same content, path,
\* instrument and rootDir, the same key.
C16_StrippedFieldsNeverChangeTheKey ==
  last.op = "getCacheKey" /\ ~last.threw =>
    \A r \in Refs : StrippedEqual(r, last.ref) => SameSignatureAndKey(r)

WithoutRunFields(cfg) == [cfg EXCEPT !.name = Undefined, !.cacheDirectory = Undefined]

DifferOnlyInRunFields(a, b) ==
  stringify(WithoutRunFields(heap[a])) = stringify(WithoutRunFields(heap[b]))

\* C16, amended: configurations that differ only in name and cacheDirectory have the
\* same transform signature and, for the same content, path, instrument and rootDir,
\* the same key.
C16_NameAndCacheDirectoryNeverChangeTheKey ==
  last.op = "getCacheKey" /\ ~last.threw =>
    \A r \in Refs : DifferOnlyInRunFields(r, last.ref) => SameSignatureAndKey(r)

\* both configurations resolved, each with its own entry, the entries' signatures equal
C16_Witness ==
  /\ last.op = "getCacheKey" /\ ~last.threw
  /\ Len(cachedConfigSets) = 2
  /\ cachedConfigSets[1].serialized # cachedConfigSets[2].serialized
  /\ cachedConfigSets[1].transformerCfgStr = cachedConfigSets[2].transformerCfgStr
  /\ \A a, b \in Refs : DifferOnlyInRunFields(a, b)

\* the five logical fields of the latest getCacheKey call
LastTuple ==
  [sig |-> transformCfgStr[last.inst],
   rootDir |-> EffectiveRootDir(last.ref, last.transformOptions),
   instrument |-> InstrumentOf(last.transformOptions),
   content |-> last.input, path |-> last.filePath]

Signatures ==
  {TransformCfgStrOf(NewConfigSet(r, heap[r], env.hooksFile), heap[r]) : r \in Refs}

Tuples ==
  [sig : Signatures, rootDir : EncRootDirs, instrument : {"true", "false"},
   content : EncContents, path : EncPaths]

\* the text a tuple of fields is digested as
KeyText(t) == sha1(CacheKeyData(t.sig, t.rootDir, t.instrument, t.content, t.path))

NulFree(s) == \A k \in 1..Len(s) : s[k] # NUL

\* C17 as claimed: the text digested for a call is the encoding of its five fields, and
\* no other tuple of fields, different in one component or in several, has that text.
C17_EncodingIsInjective ==
  last.op = "getCacheKey" /\ ~last.threw =>
    /\ last.key = KeyText(LastTuple)
    /\ \A t \in Tuples : t # LastTuple => KeyText(t) # last.key

\* C17, amended: the text digested for a call is the encoding of its five fields, and
\* no other tuple of fields, different in one component or in several, has that text,
\* provided neither tuple's root directory or file path holds a NUL character; the file
\* content may hold any.
C17_EncodingIsInjectiveOnNulFreePaths ==
  last.op = "getCacheKey" /\ ~last.threw =>
    /\ last.key = KeyText(LastTuple)
    /\ NulFree(LastTuple.rootDir) /\ NulFree(LastTuple.path) =>
         \A t \in Tuples :
           NulFree(t.rootDir) /\ NulFree(t.path) /\ t # LastTuple => KeyText(t) # last.key

\* a content holding separators, a path that could run into it
C17_Witness ==
  /\ last.op = "getCacheKey" /\ ~last.threw
  /\ last.input = <<"x", NUL, "instrument:", "off", NUL, "x">>
  /\ last.filePath = <<"y", "z">>
  /\ NulFree(LastTuple.rootDir)
  /\ Len(cachedConfigSets) = 2

\* the cache entries holding the ConfigSet the latest call returned
ReturnedEntries ==
  {e \in 1..Len(cachedConfigSets) : cachedConfigSets[e].configSet = last.configSet}

\* the signature of the configuration the latest call passed, taken of its content alone
PassedSignature ==
  TransformCfgStrOf(NewConfigSet(last.ref, heap[last.ref], env.hooksFile), heap[last.ref])

\* C20: right after a successful configsFor, whichever lookup step answered, the
\* instance's signature is the one stored in the entry of the ConfigSet returned, which
\* is the signature of the configuration passed; getCacheKey digests that signature,
\* never one an earlier call for another configuration left on the instance.
C20_SignatureIsThatOfTheCall ==
  last.op # "none" /\ ~last.threw =>
    /\ Cardinality(ReturnedEntries) = 1
    /\ \A e \in ReturnedEntries :
         /\ transformCfgStr[last.inst] = cachedConfigSets[e].transformerCfgStr
         /\ cachedConfigSets[e].transformerCfgStr = PassedSignature
    /\ last.op = "getCacheKey" =>
         last.key = sha1(CacheKeyData(PassedSignature,
                                      EffectiveRootDir(last.ref, last.transformOptions),
                                      InstrumentOf(last.transformOptions),
                                      last.input, last.filePath))

\* a serialized hit in getCacheKey while another instance holds another signature
C20_Witness ==
  /\ last.op = "getCacheKey"
  /\ last.step = 2
  /\ \E i \in Instances : /\ transformCfgStr[i] # <<Undefined>>
                           /\ transformCfgStr[i] # transformCfgStr[last.inst]
  /\ \E r \in Refs : r # last.ref /\ SameContent(r, last.ref)

====
